---- MODULE Spec2Model ----
(***************************************************************************)
(* A model of the JSON-RPC gateway: one WebSocket connection served by a   *)
(* JsonRpcHandler (src/src/jsonrpc.handler.ts, src/src/app.ts) and the     *)
(* process-wide gRPC client cache (src/src/lib/grpc.ts).                   *)
(*                                                                         *)
(* Node runs every callback to completion, so one action is one callback   *)
(* of the event loop together with the promise continuations it triggers:  *)
(* an inbound frame, the transport closing, a ledger call returning, an    *)
(* event stream delivering, failing or ending.                             *)
(***************************************************************************)
EXTENDS Integers, Sequences, FiniteSets, TLC

VARIABLES
    ws,             \* readyState of the connection's WebSocket
    subscriptions,  \* JsonRpcHandler.subscriptions: id -> subscription (0: no entry)
    subs,           \* every event stream opened so far, with its forwarding task
    calls,          \* the call handlers suspended on an await
    requests,       \* every requestSignature() promise made so far
    out,            \* the frames sent to the client, in order
    sessions,       \* FabricService objects created / closed
    nframes,        \* number of inbound frames so far
    cache,          \* grpcClientCache, least recently used first
    clients,        \* every gRPC Client constructed so far
    now,            \* the clock the cache reads
    run,            \* the current run of consecutive acquisitions of one peer
    proc            \* the Node process: "running" or "exited"

vars == <<ws, subscriptions, subs, calls, requests, out, sessions, nframes,
          cache, clients, now, run, proc>>

----------------------------------------------------------------------------
(* Bounds of the model *)

MaxFrames == 3
MaxSubscriptionFrames == 4
MaxCalls == 2
NumIds == 2
MaxEvents == 1
MaxAcquire == 11
MaxTicks == 2
NumCold == 9
MaxOrderedEvents == 3
MaxEventFrames == 4
MaxUseFrames == 2

(* The values generateUniqueId() may return *)
Ids == 1..NumIds

----------------------------------------------------------------------------
(* Strings are sequences of characters; template literals concatenate.     *)

(* a JSON number is written as "#" followed by its digits; no string starts *)
(* with "#"                                                                *)
isNumber(tlsRootCert) ==
    tlsRootCert.defined /\ tlsRootCert.text # <<>> /\ Head(tlsRootCert.text) = "#"

Str(tlsRootCert) ==
    IF ~tlsRootCert.defined THEN <<"undefined">>
    ELSE IF isNumber(tlsRootCert) THEN Tail(tlsRootCert.text)
    ELSE tlsRootCert.text

NoCert == [defined |-> FALSE, text |-> <<>>]

NumberCert == [defined |-> TRUE, text |-> <<"#", "5">>]

Digit == <<"0", "1", "2", "3", "4", "5", "6", "7", "8", "9", "A", "B", "C">>

PeerA == [endpoint |-> <<"a", "-", "b">>, name |-> <<"c">>, tlsRootCert |-> NoCert]
PeerB == [endpoint |-> <<"a">>, name |-> <<"b", "-", "c">>, tlsRootCert |-> NoCert]
PeerD == [endpoint |-> <<"d">>, name |-> <<"e">>, tlsRootCert |-> NoCert]
PeerX == [endpoint |-> <<"d">>, name |-> <<"e">>, tlsRootCert |-> NumberCert]

ColdPeer(i) == [endpoint |-> <<"h", Digit[i]>>, name |-> <<"n">>, tlsRootCert |-> NoCert]

HotPeers == {PeerA, PeerD}

NoPeer == [endpoint |-> <<>>, name |-> <<>>, tlsRootCert |-> NoCert]

cacheKey(peer) ==
    peer.endpoint \o <<"-">> \o peer.name \o <<"-">> \o Str(peer.tlsRootCert)

----------------------------------------------------------------------------
(* The state a callback works on, as one record, so that the handlers are  *)
(* functions from state to state, composed in the order the code runs.     *)

State ==
    [ws |-> ws, subscriptions |-> subscriptions, subs |-> subs, calls |-> calls,
     requests |-> requests, out |-> out, sessions |-> sessions, cache |-> cache,
     clients |-> clients, now |-> now, run |-> run]

Commit(s) ==
    /\ ws' = s.ws
    /\ subscriptions' = s.subscriptions
    /\ subs' = s.subs
    /\ calls' = s.calls
    /\ requests' = s.requests
    /\ out' = s.out
    /\ sessions' = s.sessions
    /\ cache' = s.cache
    /\ clients' = s.clients
    /\ now' = s.now
    /\ run' = s.run
    /\ proc' = proc

----------------------------------------------------------------------------
(* lib/grpc.ts: the LRU cache of gRPC clients *)

CacheMax == 10
TTL == 30 * 60 * 1000
TickMs == 16 * 60 * 1000

IndexOf(c, key) ==
    IF \E i \in 1..Len(c) : c[i].key = key
    THEN CHOOSE i \in 1..Len(c) : c[i].key = key
    ELSE 0

Remove(c, i) == SubSeq(c, 1, i - 1) \o SubSeq(c, i + 1, Len(c))

(* dispose: (client) => client.close() *)
dispose(cls, cl) == [cls EXCEPT ![cl].closed = @ + 1]

(* an entry is stale once it is older than ttl *)
isStale(e, t) == t - e.start > TTL

(* a lookup whose result is never used: every acquisition constructs *)
lruGetValue_alwaysMiss(s, key) == 0

(* grpcClientCache.get(key): the value returned, 0 for undefined *)
lruGetValue(s, key) ==
    LET i == IndexOf(s.cache, key) IN
    IF i = 0 \/ isStale(s.cache[i], s.now) THEN 0 ELSE s.cache[i].client

(* grpcClientCache.get(key): a stale entry is deleted and disposed of, a   *)
(* live one becomes the most recently used.                                *)
lruGet(s, key) ==
    LET i == IndexOf(s.cache, key) IN
    IF i = 0 THEN s
    ELSE IF isStale(s.cache[i], s.now)
         THEN [s EXCEPT !.cache = Remove(@, i),
                        !.clients = dispose(@, s.cache[i].client)]
         ELSE [s EXCEPT !.cache = Remove(@, i) \o <<s.cache[i]>>]

(* grpcClientCache.set(key, client): a value already under the key is      *)
(* disposed of; at capacity the least recently used entry is evicted.      *)
lruSet(s, key, cl) ==
    LET i == IndexOf(s.cache, key)
        e == [key |-> key, client |-> cl, start |-> s.now]
    IN  IF i # 0
        THEN [s EXCEPT !.cache = Remove(@, i) \o <<e>>,
                       !.clients = IF s.cache[i].client = cl THEN @
                                   ELSE dispose(@, s.cache[i].client)]
        ELSE IF Len(s.cache) >= CacheMax
             THEN [s EXCEPT !.cache = Tail(@) \o <<e>>,
                            !.clients = dispose(@, Head(s.cache).client)]
             ELSE [s EXCEPT !.cache = Append(@, e)]

(* new Client(peerEndpoint, tlsCredentials, ...) *)
newClient(s, peer) ==
    [s EXCEPT !.clients = Append(@, [peer |-> peer, closed |-> 0])]

(* the client getOrCreateGrpcClient returns *)
grpcClient(s, peer) ==
    LET cachedClient == lruGetValue(s, cacheKey(peer)) IN
    IF cachedClient # 0 THEN cachedClient ELSE Len(s.clients) + 1

(* the current run of acquisitions of one peer with nothing in between *)
noteRun(s, peer, cl, built) ==
    IF s.run.peer = peer
    THEN [s EXCEPT !.run.n = @ + 1, !.run.got = @ \cup {cl},
                   !.run.built = @ + built]
    ELSE [s EXCEPT !.run = [peer |-> peer, n |-> 1, got |-> {cl},
                            built |-> built,
                            fresh |-> built = 1]]

(* tlsRootCert ? Buffer.from(tlsRootCert) : undefined throws a TypeError   *)
(* when the certificate is a number                                        *)
bufferFromThrows(tlsRootCert) == isNumber(tlsRootCert)

(* whether getOrCreateGrpcClient, and createForUser with it, throws *)
createForUserThrows(s, peer) ==
    lruGetValue(s, cacheKey(peer)) = 0 /\ bufferFromThrows(peer.tlsRootCert)

(* the state getOrCreateGrpcClient leaves *)
getOrCreateGrpcClient(s, peer) ==
    LET key == cacheKey(peer)
        cachedClient == lruGetValue(s, key)
        s1 == lruGet(s, key)
    IN  IF cachedClient # 0
        THEN noteRun(s1, peer, cachedClient, 0)
        ELSE IF bufferFromThrows(peer.tlsRootCert) THEN s1
        ELSE noteRun(lruSet(newClient(s1, peer), key, Len(s1.clients) + 1),
                     peer, Len(s1.clients) + 1, 1)

(* FabricService.createForUser: the client, then the gateway session *)
createForUser(s, peer) ==
    IF createForUserThrows(s, peer) THEN getOrCreateGrpcClient(s, peer)
    ELSE [getOrCreateGrpcClient(s, peer) EXCEPT !.sessions.created = @ + 1]

----------------------------------------------------------------------------
(* Inbound frames.  A call's params record says, for each field the        *)
(* handlers read, whether it is present, absent (undefined) or null.       *)

Fields == {"eventType", "certificate", "mspId", "channel", "chaincode", "fn",
           "name", "endpoint", "subscriptionId"}

AllOk == [f \in Fields |-> "ok"]

HasChoices ==
    {AllOk} \cup {[AllOk EXCEPT ![f] = v] : f \in Fields, v \in {"undefined", "null"}}

LedgerMethods ==
    {"fabric_evaluateTransaction", "fabric_submitTransaction", "fabric_submitAsync"}

SigTexts == {"AQ==", "Ag=="}

(* Buffer.from(text, "base64") *)
Base64Decode(text) == IF text = "AQ==" THEN <<1>> ELSE IF text = "Ag==" THEN <<2>> ELSE <<>>

Params(has, eventType, subscriptionId) ==
    [has |-> has, eventType |-> eventType, subscriptionId |-> subscriptionId,
     peer |-> PeerD]

CallFrame(id, jsonrpc, method, params) ==
    [kind |-> "call", jsonrpc |-> jsonrpc, method |-> method, id |-> id,
     params |-> params, body |-> "", signature |-> ""]

ReplyFrame(id, jsonrpc, body, signature) ==
    [kind |-> "reply", jsonrpc |-> jsonrpc, method |-> "", id |-> id,
     params |-> Params(AllOk, "", 1), body |-> body, signature |-> signature]

Garbage ==
    [kind |-> "garbage", jsonrpc |-> "", method |-> "", id |-> 0,
     params |-> Params(AllOk, "", 1), body |-> "", signature |-> ""]

(* the calls a client may send as its id-th frame *)
CallFrames(id) ==
    {CallFrame(id, "2.0", m, Params(h, "", 1)) : m \in LedgerMethods, h \in HasChoices}
    \cup {CallFrame(id, "2.0", "fabric_subscribe", Params(h, e, 1)) :
            h \in HasChoices, e \in {"chaincode", "block", "other"}}
    \cup {CallFrame(id, "2.0", "fabric_unsubscribe", Params(h, "", x)) :
            h \in {AllOk, [AllOk EXCEPT !["subscriptionId"] = "undefined"],
                   [AllOk EXCEPT !["subscriptionId"] = "null"]},
            x \in Ids}
    \cup {CallFrame(id, "2.0", "fabric_unknown", Params(AllOk, "", 1)),
          CallFrame(id, "1.0", "fabric_evaluateTransaction", Params(AllOk, "", 1))}

(* the replies a client may send: a signature, a result without one, an    *)
(* error, a result that is falsy (0, "", false, null), or neither result   *)
(* nor error                                                               *)
ReplyFrames ==
    {ReplyFrame(x, v, "signature", g) : x \in Ids, v \in {"2.0", "1.0"}, g \in SigTexts}
    \cup {ReplyFrame(x, "2.0", b, "") :
            x \in Ids, b \in {"nosignature", "error", "falsy", "empty"}}

(* calls that name a peer whose tlsRootCert is a number *)
BadPeerFrames(id) ==
    {[CallFrame(id, "2.0", m, Params(AllOk, "", 1)) EXCEPT !.params.peer = PeerX] :
        m \in LedgerMethods}
    \cup {[CallFrame(id, "2.0", "fabric_subscribe", Params(AllOk, e, 1))
              EXCEPT !.params.peer = PeerX] : e \in {"chaincode", "block"}}

(* ids a frame may bear besides a positive number: the number 0, written   *)
(* ZeroId since Null is 0 here, and no id field at all                     *)
ZeroId == -1
NoId == -2

(* a method that is a JSON number is written as "#" and its digits *)
isString(method) == method \notin {"#5", "#0"}

(* if (msg.method): "" and 0 are falsy *)
methodTruthy(method) == method \notin {"", "#0"}

(* frames with a method field that are not requests: no version marker, a  *)
(* method that is no string, with an id, the id 0 or no id                 *)
InvalidRequestFrames(id) ==
    {CallFrame(x, v, m, Params(AllOk, "", 1)) :
        x \in {id, ZeroId, NoId},
        v \in {"1.0", ""},
        m \in {"fabric_evaluateTransaction", "#5"}}
    \cup {CallFrame(x, "2.0", m, Params(AllOk, "", 1)) :
            x \in {id, ZeroId, NoId}, m \in {"#5", "#0"}}

Frames(id) ==
    CallFrames(id) \cup BadPeerFrames(id) \cup InvalidRequestFrames(id)
    \cup ReplyFrames \cup {Garbage}

----------------------------------------------------------------------------
(* jsonrpc.handler.ts: outbound frames *)

Null == 0

OutFrame(t, id, code, msg, data, sub, n) ==
    [t |-> t, id |-> id, code |-> code, msg |-> msg, data |-> data, sub |-> sub, n |-> n]

(* ws.send: a socket that is no longer open transmits nothing *)
send(s, frame) == IF s.ws = "OPEN" THEN [s EXCEPT !.out = Append(@, frame)] ELSE s

sendResponse(s, id, msg, sub) == send(s, OutFrame("response", id, 0, msg, "", sub, 0))

sendError(s, id, code, msg, data, sub) == send(s, OutFrame("error", id, code, msg, data, sub, 0))

sendNotification(s, msg, sub, n) ==
    IF s.ws = "OPEN"
    THEN send(s, OutFrame("notification", Null, 0, msg, "", sub, n))
    ELSE s

----------------------------------------------------------------------------
(* jsonrpc.handler.ts: remote signing *)

Pending(s) == {n \in 1..Len(s.requests) : s.requests[n].state = "pending"}

(* requestSignature: a new promise with its message listener, and the      *)
(* signDigest request sent under the generated id                          *)
requestSignature(s, callId, requestId) ==
    send([s EXCEPT !.requests = Append(@, [reqId |-> requestId, call |-> callId,
                                          state |-> "pending", signature |-> <<>>])],
         OutFrame("signDigest", requestId, 0, "signDigest", "", 0, 0))

(* a listener that does not compare the reply's id with its request's *)
handlerMatches_anyId(req, f) ==
    /\ f.kind = "reply"
    /\ f.jsonrpc = "2.0"
    /\ f.body = "signature"

(* the listener's test of an inbound frame *)
handlerMatches(req, f) ==
    /\ f.kind = "reply"
    /\ f.jsonrpc = "2.0"
    /\ f.id = req.reqId
    /\ f.body = "signature"

(* JSON.parse throws in the listener *)
handlerThrows(f) == f.kind = "garbage"

(* listeners that never get to see a frame *)
deliver_skipsFrame(s, ns, f) == s

(* every listener registered when the frame arrives sees it *)
RECURSIVE deliver(_, _, _)
deliver(s, ns, f) ==
    IF ns = {} THEN s
    ELSE LET n == CHOOSE m \in ns : \A k \in ns : m <= k
             r == s.requests[n]
             s1 == IF handlerMatches(r, f)
                   THEN [s EXCEPT !.requests[n].state = "signature",
                                  !.requests[n].signature = Base64Decode(f.signature)]
                   ELSE IF handlerThrows(f)
                   THEN [s EXCEPT !.requests[n].state = "null"]
                   ELSE s
         IN  deliver(s1, ns \ {n}, f)

----------------------------------------------------------------------------
(* jsonrpc.handler.ts: subscriptions *)

(* whether closeListener of subscription i throws: in eventsIterator.close() *)
(* or, the iterator closed, in service.close()                              *)
closeThrows(s, i) == s.subs[i].breaks # "none"

(* closeListener: eventsIterator.close(); service.close(), as far as it    *)
(* gets                                                                    *)
closeListener(s, i, by) ==
    [s EXCEPT !.subs[i].closed = @ + 1,
              !.subs[i].closedBy = by,
              !.subs[i].closedAt = Len(s.out),
              !.subs[i].stream = IF @ = "open" /\ s.subs[i].breaks # "iterator"
                                 THEN "cancelled" ELSE @,
              !.sessions.closed = IF closeThrows(s, i) THEN @ ELSE @ + 1]

(* if (this.subscriptions[id]) { closeListener(); delete this.subscriptions[id] } *)
(* a closeListener that throws leaves the entry                            *)
closeIfRegistered(s, id, by) ==
    IF s.subscriptions[id] # 0
    THEN [closeListener(s, s.subscriptions[id], by)
            EXCEPT !.subscriptions[id] = IF closeThrows(s, s.subscriptions[id]) THEN @ ELSE 0]
    ELSE s

(* the body of cleanup's forEach, for the keys still to visit *)
RECURSIVE cleanupKeys(_, _)
cleanupKeys(s, keys) ==
    IF keys = {} THEN s
    ELSE LET subId == CHOOSE k \in keys : \A j \in keys : k <= j
             s1 == closeListener(s, s.subscriptions[subId], "cleanup")
         IN  cleanupKeys([s1 EXCEPT !.subscriptions[subId] =
                                  IF closeThrows(s, s.subscriptions[subId]) THEN @ ELSE 0],
                         keys \ {subId})

(* cleanup that calls closeListener and forgets the delete *)
cleanup_keepsEntries(s) ==
    LET live == {s.subscriptions[k] : k \in Ids} \ {0} IN
    [s EXCEPT !.subs = [i \in DOMAIN s.subs |->
                          IF i \in live
                          THEN [s.subs[i] EXCEPT !.closed = @ + 1, !.closedBy = "cleanup",
                                                 !.stream = IF @ = "open" THEN "cancelled" ELSE @]
                          ELSE s.subs[i]]]

(* cleanup: Object.keys(this.subscriptions).forEach(...) *)
cleanup(s) == cleanupKeys(s, {k \in Ids : s.subscriptions[k] # 0})

(* a catch block that closes the listener before it notifies *)
eventProcessorCatch_closesFirst(s, i) ==
    sendNotification(closeIfRegistered(s, s.subs[i].id, "stream"), "error", s.subs[i].id, 0)

(* the catch block of eventProcessor, then its finally block *)
eventProcessorCatch(s, i) ==
    LET subId == s.subs[i].id
        s1 == sendNotification(s, "error", subId, 0)
        s2 == closeIfRegistered(s1, subId, "stream")
    IN  closeIfRegistered(s2, subId, "stream")

(* the finally block alone: the iterator is done *)
eventProcessorFinally(s, i) == closeIfRegistered(s, s.subs[i].id, "stream")

(* the subscribe handlers once the event stream is open: start the         *)
(* forwarding task, write the registry entry, answer the call              *)
openSubscription(s, c, subscriptionId) ==
    LET i == Len(s.subs) + 1
        sub == [id |-> subscriptionId, kind |-> c.eventType, stream |-> "open",
                task |-> "running", closed |-> 0, closedBy |-> "", closedAt |-> 0, breaks |-> "none",
                atClose |-> FALSE,
                produced |-> 0, forwarded |-> 0, client |-> c.client]
    IN  sendResponse([s EXCEPT !.subs = Append(@, sub),
                               !.subscriptions[subscriptionId] = i,
                               !.calls = @ \ {c}],
                     c.id, "subscription", subscriptionId)

----------------------------------------------------------------------------
(* jsonrpc.handler.ts: the call handlers *)

(* a test that lets null through *)
someMissing_undefinedOnly(vals) == \E k \in DOMAIN vals : vals[k] = "undefined"

(* params.some((param) => param === undefined || param === null) *)
someMissing(vals) == \E k \in DOMAIN vals : vals[k] \in {"undefined", "null"}

(* validateRequiredParams when a field is missing: the error it sends *)
validateRequiredParams(s, id, vals) ==
    IF someMissing(vals)
    THEN sendError(s, id, -32602, "Invalid params", "Missing required fields", 0)
    ELSE s

(* the fields each handler passes to validateRequiredParams *)
transactionRequired(p) ==
    <<p.has["certificate"], p.has["mspId"], p.has["channel"], p.has["chaincode"],
      p.has["fn"], p.has["name"], p.has["endpoint"]>>

chaincodeEventsRequired(p) ==
    <<p.has["certificate"], p.has["mspId"], p.has["channel"], p.has["chaincode"],
      p.has["name"], p.has["endpoint"]>>

blockEventsRequired(p) ==
    <<p.has["certificate"], p.has["mspId"], p.has["channel"], p.has["name"],
      p.has["endpoint"]>>

(* the signatures the gateway client asks for in one ledger operation:     *)
(* a proposal; a proposal and a transaction; those and a status request;   *)
(* an events request                                                       *)
SignRounds(method) ==
    CASE method = "fabric_evaluateTransaction" -> 1
      [] method = "fabric_submitAsync" -> 2
      [] method = "fabric_submitTransaction" -> 3
      [] OTHER -> 1

(* the message of each handler's catch block *)
FailMsg(c) ==
    CASE c.method = "fabric_evaluateTransaction" -> "Transaction failed"
      [] c.method = "fabric_submitTransaction" -> "Transaction submission failed"
      [] c.method = "fabric_submitAsync" -> "Async transaction submission failed"
      [] c.method = "fabric_subscribe" /\ c.eventType = "chaincode" -> "Subscription failed"
      [] OTHER -> "Block subscription failed"

callOf(s, id) == CHOOSE c \in s.calls : c.id = id

(* a catch block that answers under no id *)
handlerCatch_nullId(s, c, data) ==
    sendError([s EXCEPT !.calls = @ \ {c}], Null, -32000, FailMsg(c), data, 0)

(* a handler's catch block: the error reply for the call *)
handlerCatch(s, c, data) ==
    sendError([s EXCEPT !.calls = @ \ {c}], c.id, -32000, FailMsg(c), data, 0)

(* the try block of a handler up to its first suspension: the session is   *)
(* created and the ledger operation asks the signer for a signature; when  *)
(* createForUser throws, the catch block answers                           *)
beginCall(s, id, method, p, requestId) ==
    LET s1 == createForUser(s, p.peer)
        c == [id |-> id, method |-> method, eventType |-> p.eventType, pc |-> "sign",
              round |-> 1, client |-> grpcClient(s, p.peer)]
    IN  IF createForUserThrows(s, p.peer)
        THEN handlerCatch(s1, c, "createForUser")
        ELSE requestSignature([s1 EXCEPT !.calls = @ \cup {c}], id, requestId)

handleTransaction(s, id, method, p, requestId) ==
    IF someMissing(transactionRequired(p))
    THEN validateRequiredParams(s, id, transactionRequired(p))
    ELSE beginCall(s, id, method, p, requestId)

handleSubscribeChaincodeEvents(s, id, p, requestId) ==
    IF someMissing(chaincodeEventsRequired(p))
    THEN validateRequiredParams(s, id, chaincodeEventsRequired(p))
    ELSE beginCall(s, id, "fabric_subscribe", p, requestId)

handleSubscribeBlockEvents(s, id, p, requestId) ==
    IF someMissing(blockEventsRequired(p))
    THEN validateRequiredParams(s, id, blockEventsRequired(p))
    ELSE beginCall(s, id, "fabric_subscribe", p, requestId)

handleSubscribe(s, id, p, requestId) ==
    IF someMissing(<<p.has["eventType"]>>)
    THEN validateRequiredParams(s, id, <<p.has["eventType"]>>)
    ELSE CASE p.eventType = "chaincode" -> handleSubscribeChaincodeEvents(s, id, p, requestId)
           [] p.eventType = "block" -> handleSubscribeBlockEvents(s, id, p, requestId)
           [] OTHER -> sendError(s, id, -32602, "Invalid params", "Invalid eventType", 0)

(* handleUnsubscribe that closes the listener and forgets the delete *)
handleUnsubscribe_keepsEntry(s, id, p) ==
    IF someMissing(<<p.has["subscriptionId"]>>)
    THEN validateRequiredParams(s, id, <<p.has["subscriptionId"]>>)
    ELSE IF s.subscriptions[p.subscriptionId] # 0
         THEN sendResponse(closeListener(s, s.subscriptions[p.subscriptionId], "unsubscribe"),
                           id, "true", 0)
         ELSE sendError(s, id, -32602, "Invalid params", "Invalid subscriptionId",
                        p.subscriptionId)

handleUnsubscribe(s, id, p) ==
    IF someMissing(<<p.has["subscriptionId"]>>)
    THEN validateRequiredParams(s, id, <<p.has["subscriptionId"]>>)
    ELSE IF s.subscriptions[p.subscriptionId] # 0
         THEN IF closeThrows(s, s.subscriptions[p.subscriptionId])
              THEN sendError(closeIfRegistered(s, p.subscriptionId, "unsubscribe"),
                             id, -32000, "Failed to unsubscribe", "close", 0)
              ELSE sendResponse(closeIfRegistered(s, p.subscriptionId, "unsubscribe"),
                                id, "true", 0)
         ELSE sendError(s, id, -32602, "Invalid params", "Invalid subscriptionId",
                        p.subscriptionId)

(* whether the frame is a call that passes validation and starts a ledger  *)
(* operation                                                               *)
accepted(f) ==
    /\ f.kind = "call"
    /\ f.jsonrpc = "2.0"
    /\ ~createForUserThrows(State, f.params.peer)
    /\ \/ f.method \in LedgerMethods /\ ~someMissing(transactionRequired(f.params))
       \/ /\ f.method = "fabric_subscribe"
          /\ ~someMissing(<<f.params.has["eventType"]>>)
          /\ \/ /\ f.params.eventType = "chaincode"
                /\ ~someMissing(chaincodeEventsRequired(f.params))
             \/ /\ f.params.eventType = "block"
                /\ ~someMissing(blockEventsRequired(f.params))

(* msg.id || null *)
idOrNull(id) == IF id \in {ZeroId, NoId} THEN Null ELSE id

(* msg.result || msg.error: a result object, with or without a signature,  *)
(* and an error object are truthy                                          *)
resultOrError(f) == f.body \in {"signature", "nosignature", "error"}

processMessage(s, f, requestId) ==
    IF f.kind = "garbage"
    THEN sendError(s, Null, -32700, "Invalid JSON", "", 0)
    ELSE IF f.kind = "call" /\ methodTruthy(f.method)
    THEN IF f.jsonrpc # "2.0" \/ ~isString(f.method)
         THEN sendError(s, idOrNull(f.id), -32600, "Invalid Request", "", 0)
         ELSE CASE f.method \in LedgerMethods ->
                     handleTransaction(s, f.id, f.method, f.params, requestId)
                [] f.method = "fabric_subscribe" ->
                     handleSubscribe(s, f.id, f.params, requestId)
                [] f.method = "fabric_unsubscribe" ->
                     handleUnsubscribe(s, f.id, f.params)
                [] OTHER -> sendError(s, f.id, -32601, "Method not found", "", 0)
    ELSE IF resultOrError(f)
    THEN s
    ELSE sendError(s, Null, -32600, "Invalid Request", "", 0)

(* createSigner's continuation once the promise of request n is resolved,  *)
(* and the handler's after it                                              *)
signerReturns(s, n, newId) ==
    LET r == s.requests[n]
        c == callOf(s, r.call)
    IN  IF r.state = "null"
        THEN handlerCatch(s, c, "Signature not received")
        ELSE IF c.method = "fabric_subscribe"
        THEN openSubscription(s, c, newId)
        ELSE [s EXCEPT !.calls = (@ \ {c}) \cup {[c EXCEPT !.pc = "ledger"]}]

takesId(s, n) ==
    /\ s.requests[n].state = "signature"
    /\ callOf(s, s.requests[n].call).method = "fabric_subscribe"

RECURSIVE continueAll(_, _, _)
continueAll(s, ns, rnd) ==
    IF ns = {} THEN s
    ELSE LET n == CHOOSE m \in ns : \A k \in ns : m <= k
         IN  IF takesId(s, n)
             THEN continueAll(signerReturns(s, n, Head(rnd)), ns \ {n}, Tail(rnd))
             ELSE continueAll(signerReturns(s, n, 1), ns \ {n}, rnd)

----------------------------------------------------------------------------
(* The callbacks of the event loop *)

(* the requests whose listener resolves its promise on frame f *)
Resolved(f) ==
    {n \in Pending(State) : handlerMatches(requests[n], f) \/ handlerThrows(f)}

(* a transport that goes on emitting frames after it has closed *)
Message_afterClose(f) ==
    /\ accepted(f) => sessions.created < MaxCalls
    /\ LET need == IF accepted(f) THEN 1
                   ELSE Cardinality({n \in Resolved(f) :
                            /\ handlerMatches(requests[n], f)
                            /\ callOf(State, requests[n].call).method = "fabric_subscribe"})
       IN  \E rnd \in [1..need -> Ids] :
             LET s1 == processMessage(State, f, IF accepted(f) THEN rnd[1] ELSE 1)
                 s2 == deliver(s1, Pending(State), f)
                 s3 == continueAll(s2, Resolved(f), IF accepted(f) THEN <<>> ELSE rnd)
             IN  Commit(s3)
    /\ nframes' = nframes + 1

(* ws.on("message"): processMessage, then every signature listener, then   *)
(* the continuations of the promises they resolved                         *)
Message(f) ==
    /\ ws = "OPEN"
    /\ accepted(f) => sessions.created < MaxCalls
    /\ LET need == IF accepted(f) THEN 1
                   ELSE Cardinality({n \in Resolved(f) :
                            /\ handlerMatches(requests[n], f)
                            /\ callOf(State, requests[n].call).method = "fabric_subscribe"})
       IN  \E rnd \in [1..need -> Ids] :
             LET s1 == processMessage(State, f, IF accepted(f) THEN rnd[1] ELSE 1)
                 s2 == deliver(s1, Pending(State), f)
                 s3 == continueAll(s2, Resolved(f), IF accepted(f) THEN <<>> ELSE rnd)
             IN  Commit(s3)
    /\ nframes' = nframes + 1

(* ws.on("close"): handler.cleanup() *)
Close ==
    /\ ws = "OPEN"
    /\ LET s0 == [State EXCEPT
                    !.ws = "CLOSED",
                    !.subs = [i \in DOMAIN subs |->
                                [subs[i] EXCEPT !.atClose = subscriptions[subs[i].id] = i]]]
       IN  Commit(cleanup(s0))
    /\ UNCHANGED nframes

(* the ledger operation of a suspended call returns: the next signature is *)
(* asked for, or the handler answers the call                              *)
LedgerReturns(c) ==
    /\ c.pc = "ledger"
    /\ IF c.round < SignRounds(c.method)
       THEN \E requestId \in Ids :
              Commit(requestSignature(
                  [State EXCEPT !.calls = (@ \ {c}) \cup
                        {[c EXCEPT !.pc = "sign", !.round = @ + 1]}],
                  c.id, requestId))
       ELSE LET s1 == sendResponse([State EXCEPT !.calls = @ \ {c}], c.id,
                          IF c.method = "fabric_submitAsync" THEN "transactionId"
                          ELSE "result", 0)
            IN  Commit(IF c.method = "fabric_submitAsync" THEN s1
                       ELSE [s1 EXCEPT !.sessions.closed = @ + 1])
    /\ UNCHANGED nframes

(* the ledger operation fails: the handler's catch block *)
LedgerFails(c) ==
    /\ c.pc = "ledger"
    /\ Commit(handlerCatch(State, c, "ledger error"))
    /\ UNCHANGED nframes

(* the peer delivers an event on an open stream that has delivered fewer   *)
(* than max                                                                *)
Produce(i, max) ==
    /\ subs[i].stream = "open"
    /\ subs[i].produced < max
    /\ subs' = [subs EXCEPT ![i].produced = @ + 1]
    /\ UNCHANGED <<ws, subscriptions, calls, requests, out, sessions, nframes,
                   cache, clients, now, run, proc>>

StreamData(i) == Produce(i, MaxEvents)

(* a loop that takes the newest event of the stream first *)
Forward_newestFirst(i) ==
    /\ subs[i].task = "running"
    /\ subs[i].stream \in {"open", "cancelled"}
    /\ subs[i].forwarded < subs[i].produced
    /\ Commit(sendNotification([State EXCEPT !.subs[i].forwarded = @ + 1],
                               "event", subs[i].id, subs[i].produced - subs[i].forwarded))
    /\ UNCHANGED nframes

(* the body of eventProcessor's loop: the next event is forwarded *)
Forward(i) ==
    /\ subs[i].task = "running"
    /\ subs[i].stream \in {"open", "cancelled"}
    /\ subs[i].forwarded < subs[i].produced
    /\ Commit(sendNotification([State EXCEPT !.subs[i].forwarded = @ + 1],
                               "event", subs[i].id, subs[i].forwarded + 1))
    /\ UNCHANGED nframes

(* the stream fails: the loop throws *)
StreamError(i) ==
    /\ subs[i].task = "running"
    /\ subs[i].stream = "open"
    /\ Commit(eventProcessorCatch(
           [State EXCEPT !.subs[i].stream = "errored", !.subs[i].task = "done"], i))
    /\ UNCHANGED nframes

(* the stream ends: the loop is left normally *)
StreamEnd(i) ==
    /\ subs[i].task = "running"
    /\ subs[i].stream = "open"
    /\ Commit(eventProcessorFinally(
           [State EXCEPT !.subs[i].stream = "ended", !.subs[i].task = "done"], i))
    /\ UNCHANGED nframes

(* the stream was closed by closeListener: the read in progress fails with *)
(* the cancellation, and the loop throws                                   *)
StreamCancelled(i) ==
    /\ subs[i].task = "running"
    /\ subs[i].stream = "cancelled"
    /\ Commit(eventProcessorCatch([State EXCEPT !.subs[i].task = "done"], i))
    /\ UNCHANGED nframes

(* some handler of the process acquires a client for a peer *)
Acquire(peer) ==
    /\ sessions.created < MaxAcquire
    /\ Commit(createForUser(State, peer))
    /\ UNCHANGED nframes

NoRun == [peer |-> NoPeer, n |-> 0, got |-> {}, built |-> 0, fresh |-> FALSE]

(* time passes *)
Tick ==
    /\ now < MaxTicks * TickMs
    /\ now' = now + TickMs
    /\ run' = NoRun
    /\ UNCHANGED <<ws, subscriptions, subs, calls, requests, out, sessions, nframes,
                   cache, clients, proc>>

ColdUsed == Cardinality({i \in DOMAIN clients : clients[i].peer \notin HotPeers})

AcquirePeers ==
    HotPeers \cup (IF ColdUsed < NumCold THEN {ColdPeer(ColdUsed + 1)} ELSE {})

Init ==
    /\ ws = "OPEN"
    /\ subscriptions = [x \in Ids |-> 0]
    /\ subs = <<>>
    /\ calls = {}
    /\ requests = <<>>
    /\ out = <<>>
    /\ sessions = [created |-> 0, closed |-> 0]
    /\ nframes = 0
    /\ cache = <<>>
    /\ clients = <<>>
    /\ now = 0
    /\ run = NoRun
    /\ proc = "running"

(* the ledger operations of the suspended calls *)
LedgerSteps ==
    \/ \E c \in calls : LedgerReturns(c)
    \/ \E c \in calls : LedgerFails(c)

(* the event streams and their forwarding tasks *)
StreamSteps ==
    \/ \E i \in DOMAIN subs : StreamData(i)
    \/ \E i \in DOMAIN subs : Forward(i)
    \/ \E i \in DOMAIN subs : StreamError(i)
    \/ \E i \in DOMAIN subs : StreamEnd(i)
    \/ \E i \in DOMAIN subs : StreamCancelled(i)

(* a client that sends any frame *)
Next ==
    \/ nframes < MaxFrames /\ \E f \in Frames(nframes + 1) : Message(f)
    \/ Close
    \/ LedgerSteps
    \/ StreamSteps

Spec == Init /\ [][Next]_vars

(* a client that subscribes, unsubscribes and signs *)
SubscriptionFrames(id) ==
    {f \in CallFrames(id) \cup ReplyFrames :
        \/ /\ f.kind = "call"
           /\ f.jsonrpc = "2.0"
           /\ f.method \in {"fabric_subscribe", "fabric_unsubscribe"}
           /\ f.params.has = AllOk
           /\ f.params.eventType # "other"
        \/ /\ f.kind = "reply"
           /\ f.jsonrpc = "2.0"
           /\ f.body = "signature"
           /\ f.signature = "AQ=="}

SubscriptionNext ==
    \/ /\ nframes < MaxSubscriptionFrames
       /\ \E f \in SubscriptionFrames(nframes + 1) : Message(f)
    \/ Close
    \/ StreamSteps

SubscriptionSpec == Init /\ [][SubscriptionNext]_vars

(* Promise continuations and the forwarding tasks always get to run, and   *)
(* the peer answers every ledger operation; nothing obliges the client to  *)
(* send a frame or the transport to close.                                 *)
FairSpec ==
    /\ Spec
    /\ WF_vars(LedgerSteps)
    /\ WF_vars(\E i \in DOMAIN subs : Forward(i))
    /\ WF_vars(\E i \in DOMAIN subs : StreamCancelled(i))

(* the stream or the session of a subscription gets into a condition in    *)
(* which closing it throws                                                 *)
CloseBreaks(i, how) ==
    /\ subs[i].breaks = "none"
    /\ subs[i].closed = 0
    /\ subs' = [subs EXCEPT ![i].breaks = how]
    /\ UNCHANGED <<ws, subscriptions, calls, requests, out, sessions, nframes,
                   cache, clients, now, run, proc>>

(* a client that subscribes, signs and unsubscribes while close actions may *)
(* throw                                                                   *)
ThrowNext ==
    \/ /\ nframes < MaxFrames
       /\ \E f \in SubscriptionFrames(nframes + 1) : Message(f)
    \/ Close
    \/ StreamSteps
    \/ \E i \in DOMAIN subs : \E how \in {"iterator", "service"} : CloseBreaks(i, how)

ThrowSpec == Init /\ [][ThrowNext]_vars

(* a client that subscribes to block events, signs and unsubscribes, on    *)
(* streams that deliver several events                                     *)
EventFrames(id) ==
    {f \in SubscriptionFrames(id) : f.kind = "call" => f.params.eventType # "chaincode"}

EventNext ==
    \/ /\ nframes < MaxEventFrames
       /\ \E f \in EventFrames(nframes + 1) : Message(f)
    \/ Close
    \/ \E i \in DOMAIN subs : Produce(i, MaxOrderedEvents)
    \/ \E i \in DOMAIN subs : Forward(i)
    \/ \E i \in DOMAIN subs : StreamCancelled(i)

EventSpec == Init /\ [][EventNext]_vars

CacheNext ==
    \/ \E peer \in AcquirePeers : Acquire(peer)
    \/ Tick

CacheSpec == Init /\ [][CacheNext]_vars

(* main.ts: the SIGINT/SIGTERM handler: shutdown() closes the HTTP server,  *)
(* then process.exit(0)                                                    *)
handleExit ==
    /\ proc = "running"
    /\ proc' = "exited"
    /\ UNCHANGED <<ws, subscriptions, subs, calls, requests, out, sessions, nframes,
                   cache, clients, now, run>>

(* a process that acquires clients for two peers over time until a signal  *)
(* ends it                                                                 *)
ShutdownNext ==
    \/ proc = "running" /\ \E peer \in HotPeers : Acquire(peer)
    \/ proc = "running" /\ Tick
    \/ handleExit

ShutdownSpec == Init /\ [][ShutdownNext]_vars

(* a client that subscribes, evaluates and signs *)
UseFrames(id) ==
    {f \in SubscriptionFrames(id) : f.method # "fabric_unsubscribe"}
    \cup {CallFrame(id, "2.0", "fabric_evaluateTransaction", Params(AllOk, "", 1))}

(* one connection with its calls and subscriptions in a process whose      *)
(* other handlers acquire clients as time passes                           *)
UseNext ==
    \/ nframes < MaxUseFrames /\ \E f \in UseFrames(nframes + 1) : Message(f)
    \/ Close
    \/ LedgerSteps
    \/ StreamSteps
    \/ \E peer \in HotPeers : Acquire(peer)
    \/ Tick

UseSpec == Init /\ [][UseNext]_vars

(* peers whose endpoints and names contain the key's separator *)
KeyPeers == {PeerA, PeerB, PeerD}

(* callers that name such peers *)
KeyNext ==
    \/ \E peer \in KeyPeers : Acquire(peer)
    \/ Tick

KeySpec == Init /\ [][KeyNext]_vars

----------------------------------------------------------------------------
(* Properties *)

Registered(i) == subscriptions[subs[i].id] = i

(* the fabric_subscription notifications of a log that carry an id *)
Notifications(log, id) ==
    {k \in DOMAIN log : log[k].t = "notification" /\ log[k].sub = id}

(* C1: once the transport has closed, every subscription that had an entry *)
(* in the registry when cleanup ran (atClose) has had its close action run *)
(* exactly once, whatever its stream did afterwards, and the registry holds *)
(* no entry.                                                               *)
C1_CloseClosesEachActiveOnce ==
    ws = "CLOSED" =>
        /\ \A x \in Ids : subscriptions[x] = 0
        /\ \A i \in DOMAIN subs : subs[i].atClose => subs[i].closed = 1

(* two subscriptions were active at the close and both streams have since  *)
(* failed with the cancellation                                            *)
C1_Witness ==
    /\ ws = "CLOSED"
    /\ \E i, j \in DOMAIN subs :
          /\ i # j
          /\ subs[i].atClose /\ subs[j].atClose
          /\ subs[i].task = "done" /\ subs[j].task = "done"

UnsubscribeFrames(id) ==
    {f \in CallFrames(id) : f.method = "fabric_unsubscribe" /\ f.params.has = AllOk}

C7_NoNotificationAfterUnsubscribe ==
    [][\A i \in DOMAIN subs :
          subs[i].closedBy = "unsubscribe" =>
              Notifications(out', subs[i].id) = Notifications(out, subs[i].id)]_vars

(* C2: once the transport has closed, no signature request is left pending. *)
C2_CloseFailsPendingSignatures ==
    ws = "CLOSED" => Pending(State) = {}

WellFormedSignatureReplies ==
    {f \in ReplyFrames : f.jsonrpc = "2.0" /\ f.body = "signature"}

(* C3: a well-formed reply carrying a signature resolves, of the requests  *)
(* pending when it arrives, exactly those whose correlation id is the      *)
(* reply's id, each with the decoded signature of the reply; every other   *)
(* pending request stays as it was.                                        *)
C3_ReplyRoutedById ==
    [][\A f \in WellFormedSignatureReplies :
          Message(f) =>
            \A n \in Pending(State) :
                IF requests[n].reqId = f.id
                THEN /\ requests'[n].state = "signature"
                     /\ requests'[n].signature = Base64Decode(f.signature)
                ELSE requests'[n] = requests[n]]_vars

(* two requests with different ids were pending; the later one has been    *)
(* answered and the earlier one still waits                                *)
C3_Witness ==
    /\ Len(requests) >= 2
    /\ requests[1].reqId # requests[2].reqId
    /\ requests[1].call # requests[2].call
    /\ requests[1].state = "pending"
    /\ requests[2].state = "signature"
    /\ requests[2].signature = <<2>>

(* C4: a synchronous submit waiting for a signature on an open connection  *)
(* eventually stops waiting: its call gets answered, whether or not a sign  *)
(* reply ever arrives.  A behaviour that has used up its frames is excused, *)
(* so a violation is a wait that goes on while the client could still send. *)
C4_SubmitGetsAnswer ==
    \A id \in 1..MaxFrames :
        (\E c \in calls : c.id = id /\ c.method = "fabric_submitTransaction" /\ c.pc = "sign")
            ~> \/ ws = "CLOSED"
               \/ nframes = MaxFrames
               \/ \E k \in DOMAIN out : out[k].id = id /\ out[k].t \in {"response", "error"}

BadReplies ==
    {f \in ReplyFrames : f.jsonrpc = "2.0" /\ f.body \in {"error", "nosignature"}}

(* C5: an error reply, or a reply without a signature, that bears the id   *)
(* of a pending request fails that request: its call gets the error reply. *)
C5_BadReplyFailsSigning ==
    [][\A f \in BadReplies :
          Message(f) =>
            \A n \in Pending(State) :
                requests[n].reqId = f.id =>
                    /\ requests'[n].state = "null"
                    /\ \E k \in DOMAIN out' :
                          /\ out'[k].t = "error"
                          /\ out'[k].id = requests[n].call
                          /\ out'[k].code = -32000]_vars

(* the fields the interface requires of each call *)
Required(f) ==
    CASE f.method \in LedgerMethods ->
           {"certificate", "mspId", "channel", "chaincode", "fn", "name", "endpoint"}
      [] f.method = "fabric_subscribe" ->
           {"eventType", "certificate", "mspId", "channel", "name", "endpoint"}
           \cup (IF f.params.eventType = "chaincode" THEN {"chaincode"} ELSE {})
      [] f.method = "fabric_unsubscribe" -> {"subscriptionId"}
      [] OTHER -> {}

LacksRequired(f) ==
    /\ f.kind = "call"
    /\ f.jsonrpc = "2.0"
    /\ \E k \in Required(f) : f.params.has[k] # "ok"

C8_SingleFlight ==
    run.n >= 1 =>
        /\ Cardinality(run.got) = 1
        /\ run.built <= 1
        /\ run.fresh => run.built = 1

(* three acquisitions in a row, the first of which found no live entry *)
C8_Witness == run.fresh /\ run.n >= 3

InCache(cl) == \E k \in DOMAIN cache : cache[k].client = cl

(* C9: after an acquisition the cache holds at most the maximum number of  *)
(* entries and none older than the maximum age, and the clients no longer  *)
(* in the cache have each been closed exactly once, those in it never.     *)
C9_EvictedAndReleasedOnce ==
    run.n >= 1 =>
        /\ Len(cache) <= CacheMax
        /\ \A k \in DOMAIN cache : ~isStale(cache[k], now)
        /\ \A cl \in DOMAIN clients :
              clients[cl].closed = IF InCache(cl) THEN 0 ELSE 1

----------------------------------------------------------------------------
(* C11: a suspended call never keeps the connection from taking the next  *)
(* frame: while the socket is open and calls are suspended every frame the *)
(* client may send is taken, and a well-formed signature reply taken then  *)
(* resolves the pending request with its id and moves the call that waited *)
(* for it past the signature.                                              *)
C11_SuspendedCallsDoNotBlock ==
    /\ [](/\ ws = "OPEN"
          /\ calls # {}
          /\ nframes < MaxFrames
          => \A f \in Frames(nframes + 1) :
                (accepted(f) => sessions.created < MaxCalls) => ENABLED Message(f))
    /\ [][\A f \in WellFormedSignatureReplies :
            Message(f) =>
              \A n \in Pending(State) :
                  requests[n].reqId = f.id =>
                      /\ requests'[n].state = "signature"
                      /\ \A c \in calls' : c.id = requests[n].call =>
                            \/ c.pc = "ledger"
                            \/ c.round > callOf(State, requests[n].call).round]_vars

(* the second call has been answered while the first still waits for its   *)
(* signature                                                               *)
C11_Witness ==
    /\ \E c \in calls : c.id = 1 /\ c.pc = "sign"
    /\ \E k \in DOMAIN out : out[k].t = "response" /\ out[k].id = 2

(* C12: a failure thrown inside a call handler becomes one error reply     *)
(* with code -32000 under the id of the call that failed, and touches      *)
(* nothing else: a ledger operation that fails, a createForUser that       *)
(* throws, and the signer throwing because its request was resolved with   *)
(* null each answer only the calls they failed; the socket stays open.     *)
C12_FailureBecomesOwnErrorReply ==
    [][/\ \A c \in calls :
            (ws = "OPEN" /\ LedgerFails(c)) =>
                /\ out' = Append(out, OutFrame("error", c.id, -32000, FailMsg(c),
                                               "ledger error", 0, 0))
                /\ calls' = calls \ {c}
                /\ UNCHANGED <<ws, requests, subscriptions, subs>>
       /\ \A f \in BadPeerFrames(nframes + 1) :
            Message(f) =>
                /\ Len(out') = Len(out) + 1
                /\ SubSeq(out', 1, Len(out)) = out
                /\ out'[Len(out')].t = "error"
                /\ out'[Len(out')].code = -32000
                /\ out'[Len(out')].id = f.id
                /\ UNCHANGED <<ws, calls, requests, subscriptions, subs, sessions>>
       /\ Message(Garbage) =>
            LET failed == {requests[n].call : n \in Pending(State)}
                new == {k \in DOMAIN out' : k > Len(out)}
            IN  /\ \A id \in failed :
                      Cardinality({k \in new : /\ out'[k].t = "error"
                                               /\ out'[k].code = -32000
                                               /\ out'[k].id = id}) = 1
                /\ \A k \in new : out'[k].code = -32000 => out'[k].id \in failed
                /\ ws' = ws]_vars

(* the first call failed in createForUser and was answered under its id;   *)
(* a later call was taken and has got its signature                        *)
C12_Witness ==
    /\ Len(out) >= 1
    /\ out[1].t = "error" /\ out[1].code = -32000 /\ out[1].id = 1
    /\ out[1].data = "createForUser"
    /\ \E c \in calls : c.id = 2 /\ c.pc = "ledger"

(* C13: when the stream of a subscription that has its registry entry      *)
(* fails while the socket is open, one error-shaped fabric_subscription    *)
(* notification carrying its id is sent and nothing else; the close action *)
(* runs once, after the notification was sent; the entry is removed; every *)
(* other entry and subscription, every suspended call and every signature  *)
(* request is as before.                                                   *)
C13_StreamErrorNotifiesOnceThenCloses ==
    [][\A i \in DOMAIN subs :
          (ws = "OPEN" /\ Registered(i) /\ StreamError(i)) =>
              /\ out' = Append(out, OutFrame("notification", Null, 0, "error", "",
                                             subs[i].id, 0))
              /\ subs'[i].closed = subs[i].closed + 1
              /\ subs'[i].closedAt = Len(out')
              /\ subscriptions' = [subscriptions EXCEPT ![subs[i].id] = 0]
              /\ \A j \in DOMAIN subs : j # i => subs'[j] = subs[j]
              /\ UNCHANGED <<ws, calls, requests>>]_vars

(* the stream of one of two registered subscriptions failed and its close  *)
(* action ran; the other subscription is still registered and open         *)
C13_Witness ==
    \E i, j \in DOMAIN subs :
        /\ subs[i].stream = "errored" /\ subs[i].closed = 1
        /\ subs[i].closedBy = "stream"
        /\ subs[i].id # subs[j].id
        /\ Registered(j) /\ subs[j].stream = "open"
        /\ ws = "OPEN"

(* the frames without a method that carry a result or an error field *)
RepliesWithResultOrError == {f \in ReplyFrames : f.body # "empty"}

(* C14: a frame without a method that carries a result or an error field   *)
(* is never answered, whatever the value of its result: no invalid-request *)
(* error is sent for it; and when no pending signature request has its id  *)
(* it changes nothing at all.                                              *)
C14_ReplyNeverAnswered ==
    [][\A f \in RepliesWithResultOrError :
          Message(f) =>
              /\ \A k \in DOMAIN out' : k > Len(out) => out'[k].code # -32600
              /\ (\A n \in Pending(State) : requests[n].reqId # f.id) =>
                    UNCHANGED <<ws, subscriptions, subs, calls, requests, out,
                                sessions, cache, clients>>]_vars

(* the frames that have a method field and lack the version marker or have *)
(* a method that is no string                                              *)
NotRequests(id) ==
    {f \in CallFrames(id) \cup InvalidRequestFrames(id) :
        f.jsonrpc # "2.0" \/ ~isString(f.method)}

(* C15: a frame that has a method field but not the version marker "2.0",  *)
(* or whose method is no string, is answered by one invalid-request error  *)
(* (-32600) under the id the frame bears, under null when it bears none,   *)
(* and no handler runs: nothing else changes.                              *)
C15_InvalidRequestKeepsId ==
    [][\A f \in NotRequests(nframes + 1) :
          Message(f) =>
              /\ out' = Append(out, OutFrame("error", IF f.id = NoId THEN Null ELSE f.id,
                                             -32600, "Invalid Request", "", 0, 0))
              /\ UNCHANGED <<ws, subscriptions, subs, calls, requests, sessions,
                             cache, clients>>]_vars

(* C16: a frame that is not valid JSON is answered by exactly one          *)
(* parse-error reply (-32700) under the null id and by nothing else; the   *)
(* registry and every pending signature request are as before, and the     *)
(* socket stays open.                                                      *)
C16_ParseErrorOnly ==
    [][Message(Garbage) =>
          /\ out' = Append(out, OutFrame("error", Null, -32700, "Invalid JSON", "", 0, 0))
          /\ \A n \in Pending(State) : requests'[n] = requests[n]
          /\ UNCHANGED <<ws, subscriptions>>]_vars

(* the event notifications of a log that carry an id, in the order sent *)
EventsSent(log, id) ==
    SelectSeq(log, LAMBDA e : e.t = "notification" /\ e.msg = "event" /\ e.sub = id)

(* C17: the event notifications of a subscription are sent in the order    *)
(* its stream produced the events and none twice: those carrying an id     *)
(* that one stream only has borne are the events 1, 2, ... of that stream, *)
(* and every step sends at most one event notification, which is the next  *)
(* event not yet forwarded of some stream.                                 *)
C17_NotificationsInStreamOrder ==
    /\ [](\A i \in DOMAIN subs :
            (\A j \in DOMAIN subs : j # i => subs[j].id # subs[i].id) =>
                LET ev == EventsSent(out, subs[i].id)
                IN  /\ Len(ev) <= subs[i].forwarded
                    /\ subs[i].forwarded <= subs[i].produced
                    /\ \A k \in 1..Len(ev) : ev[k].n = k)
    /\ [][LET new == {k \in DOMAIN out' : /\ k > Len(out)
                                          /\ out'[k].t = "notification"
                                          /\ out'[k].msg = "event"}
          IN  /\ Cardinality(new) <= 1
              /\ \A k \in new :
                    \E i \in DOMAIN subs :
                        /\ out'[k].sub = subs[i].id
                        /\ out'[k].n = subs[i].forwarded + 1
                        /\ subs'[i].forwarded = subs[i].forwarded + 1
                        /\ subs[i].forwarded < subs[i].produced]_vars

(* three events of one subscription were sent, with an event of another    *)
(* subscription between the first and the last                             *)
C17_Witness ==
    \E a, b, c \in DOMAIN out :
        /\ a < b /\ b < c
        /\ out[a].msg = "event" /\ out[b].msg = "event" /\ out[c].msg = "event"
        /\ out[a].sub = out[c].sub /\ out[b].sub # out[a].sub
        /\ out[a].n = 1 /\ out[c].n = 3

(* C18: whichever of unsubscribe, transport close and stream error or end  *)
(* come, in whatever order, and also when the close action throws part-way, *)
(* the close action of a subscription runs at most once.                   *)
C18_CloseAtMostOnce ==
    \A i \in DOMAIN subs : subs[i].closed <= 1

(* C19: the registry holds exactly the subscriptions whose close action    *)
(* has not started, and a subscription whose close action has run has had  *)
(* both its stream and its session released: the sessions closed are as    *)
(* many as the subscriptions closed.                                       *)
C19_RegistryHoldsTheUnclosed ==
    /\ \A i \in DOMAIN subs : Registered(i) <=> subs[i].closed = 0
    /\ \A i \in DOMAIN subs : subs[i].closed > 0 => subs[i].stream # "open"
    /\ sessions.closed = Cardinality({i \in DOMAIN subs : subs[i].closed > 0})

(* C20: the id generated for a new subscription is not the id of an entry  *)
(* of the registry: no step replaces the subscription under an id by       *)
(* another one.                                                            *)
C20_NewIdNeverOverwrites ==
    [][\A x \in Ids :
          (subscriptions[x] # 0 /\ subscriptions'[x] # 0) =>
              subscriptions'[x] = subscriptions[x]]_vars

(* C21: once the process has exited on a signal, every client the cache    *)
(* still held has had its release action (client.close) invoked.           *)
C21_ShutdownReleasesCache ==
    proc = "exited" =>
        \A k \in DOMAIN cache : clients[cache[k].client].closed >= 1

(* C22: no subscription becomes Active once the transport has closed: in   *)
(* every step that ends with the transport closed, the close itself        *)
(* included, no subscription is created, no registry entry is written and  *)
(* no event stream is opened, whatever subscribe calls are still in flight.*)
C22_NoSubscriptionAfterClose ==
    [][ws' = "CLOSED" =>
          /\ Len(subs') = Len(subs)
          /\ \A k \in Ids : subscriptions'[k] # 0 => subscriptions'[k] = subscriptions[k]
          /\ \A i \in DOMAIN subs : subs'[i].stream = "open" => subs[i].stream = "open"]_vars

(* the transport closed while a subscribe call was waiting for its         *)
(* signature; the call is still suspended                                  *)
C22_Witness ==
    /\ ws = "CLOSED"
    /\ \E c \in calls : c.method = "fabric_subscribe" /\ c.pc = "sign"
    /\ \E n \in Pending(State) : \E c \in calls : requests[n].call = c.id

(* C23: one inbound frame resolves at most one pending signature request:  *)
(* of the requests pending before a step, at most one is no longer pending *)
(* after it.                                                               *)
C23_OneFrameResolvesAtMostOne ==
    [][Cardinality({n \in Pending(State) : requests'[n].state # "pending"}) <= 1]_vars

(* C24: the cache never releases a client while a session created on it is *)
(* in use: the client of every Active subscription and of every call in    *)
(* flight has not been closed.                                             *)
C24_NoReleaseWhileInUse ==
    /\ \A i \in DOMAIN subs : Registered(i) => clients[subs[i].client].closed = 0
    /\ \A c \in calls : clients[c.client].closed = 0

(* C25: an acquisition returns only a client that was constructed for      *)
(* exactly the (endpoint, name, trust anchor) triple asked for: every      *)
(* client handed out in the current run of acquisitions of a peer was      *)
(* built for that peer.                                                    *)
C25_ClientBuiltForTheTripleAskedFor ==
    run.peer # NoPeer => \A cl \in run.got : clients[cl].peer = run.peer

(* C26: the response to the subscribe call that returns S is sent before   *)
(* any fabric_subscription notification carrying S: in the step that       *)
(* creates a subscription, every notification sent so far under its id     *)
(* comes after the response this step sends for it.                        *)
C26_ResponseBeforeNotifications ==
    [][\A i \in DOMAIN subs' \ DOMAIN subs :
          \A n \in 1..Len(out') :
              (out'[n].t = "notification" /\ out'[n].sub = subs'[i].id)
              => \E m \in (Len(out) + 1)..(n - 1) :
                    /\ out'[m].t = "response"
                    /\ out'[m].msg = "subscription"
                    /\ out'[m].sub = subs'[i].id]_vars

====
